---- MODULE Spec2Model ----
(***************************************************************************)
(* The deployment reconciler of v9_deployment_manager                      *)
(* (deployment/actionManger.go, worker/worker.go): the ActionManager with  *)
(* its version-update queue, its single-slot dirty signal, the Version     *)
(* Index (pathHashes) under pathHashMux, the update-applier goroutine, the *)
(* reconciler goroutine and the four-phase pass HandleDirtyState, run      *)
(* against a fleet of workers.  One step of the pass is one remote call.   *)
(***************************************************************************)
EXTENDS Naturals, Sequences, FiniteSets

\* ------------------------------------------------------------------ bounds

NumWorkers == 2
MaxUpdates == 2
MaxNotify == 1
MaxInitRunning == 3

\* ------------------------------------------------------- program constants

headHashSentinel == "HEAD"
updaterChanSize == 1024

\* ------------------------------------------------------------- data model

Workers == 1..NumWorkers
Hashes == {"h1", "h2"}
PathAX == [User |-> "a", Repo |-> "x"]
PathAY == [User |-> "a", Repo |-> "y"]
Paths == {PathAX, PathAY}

ComponentID(path, hash) == [User |-> path.User, Repo |-> path.Repo, Hash |-> hash]
ComponentPath(id) == [User |-> id.User, Repo |-> id.Repo]

\* What a worker can run: concrete versions only.
RunnableIDs == {ComponentID(p, h) : p \in Paths, h \in Hashes}

NoID == [User |-> "", Repo |-> "", Hash |-> ""]
NoErr == "nil"

\* Mutant of contains: the repository is not compared.
containsUser(l, v) == \E k \in 1..Len(l) : l[k].User = v.User

\* worker.go: contains(l, v)
contains(l, v) == \E k \in 1..Len(l) : l[k].Repo = v.Repo /\ l[k].User = v.User

\* worker.go: StatusResponse.FindNonactive, over the worker's active components
FindNonactive(activeComponents, active) ==
    {c \in activeComponents : ~contains(active, c)}

\* worker.go: StatusResponse.ContainsPath
ContainsPath(activeComponents, compPath) ==
    \E c \in activeComponents : c.User = compPath.User /\ c.Repo = compPath.Repo

\* Mutant of ContainsExactly: the hash is not compared.
ContainsExactlyByPath(activeComponents, compID) ==
    \E c \in activeComponents : c.User = compID.User /\ c.Repo = compID.Repo

\* worker.go: StatusResponse.ContainsExactly
ContainsExactly(activeComponents, compID) ==
    \E c \in activeComponents : c = compID

\* Mutant of HashDiffers: the hash test is inverted.
HashDiffersInverted(activeComponents, compID) ==
    {c \in activeComponents :
        c.User = compID.User /\ c.Repo = compID.Repo /\ c.Hash = compID.Hash}

\* Mutant of HashDiffers: the hash is not compared, every version of the
\* path differs.
HashDiffersAny(activeComponents, compID) ==
    {c \in activeComponents : c.User = compID.User /\ c.Repo = compID.Repo}

\* actionManger.go:290, the test of deactivateIfHashDiffers
HashDiffers(activeComponents, compID) ==
    {c \in activeComponents :
        c.User = compID.User /\ c.Repo = compID.Repo /\ c.Hash # compID.Hash}

VARIABLES
    running,              \* the fleet: worker -> set of ComponentID it runs
    dbActive,             \* the Desired-State Source: list of desired paths
    pathHashes,           \* the Version Index: a map ComponentPath -> hash
    pathHashMux,          \* holder of the mutex: "free", "applier", an executor
    pathHashUpdater,      \* the version-update channel (FIFO of ComponentID)
    dirtyStateNotifier,   \* the dirty channel: number of buffered signals (0/1)
    applier,              \* update-applier goroutine: [pc, updatedID]
    pass,                 \* reconciler goroutine and the locals of its pass
    forced,               \* a goroutine calling HandleDirtyState itself: locals
    calls,                \* history: Activate/Deactivate calls of the pass
    nCalls,               \* history: remote calls (Status included) of the pass
    snapshot,             \* history: pathHashes when the pass took the lock
    running0,             \* history: the fleet when the pass took the lock
    hist                  \* history: counters of the event intake

vars == <<running, dbActive, pathHashes, pathHashMux, pathHashUpdater,
          dirtyStateNotifier, applier, pass, forced, calls, nCalls,
          snapshot, running0, hist>>

intakeVars == <<pathHashUpdater, dirtyStateNotifier, applier, hist>>

\* ------------------------------------------------- the pass: control flow

\* The reconciler goroutine blocked on <-mgr.dirtyStateNotifier (line 65).
Idle ==
    [pc |-> "wait", active |-> <<>>, i |-> 0, w |-> 0, compID |-> NoID,
     todo |-> {}, notRunningAnyVersion |-> {}, workerToDeployTo |-> 0,
     err |-> NoErr]

At(pc, act, i, w, compID) ==
    [Idle EXCEPT !.pc = pc, !.active = act, !.i = i, !.w = w, !.compID = compID]

\* `return err` of HandleDirtyState and of its helpers: the pass ends at once.
Abort(act, e) == [At("done", act, 0, 0, NoID) EXCEPT !.err = e]

\* `return nil` at line 171.
Finished(act) == At("done", act, 0, 0, NoID)

\* The first index j >= k of act whose path has an entry in ph (0: none).
FirstKnown(ph, act, k) ==
    LET S == {j \in k..Len(act) : act[j] \in DOMAIN ph}
    IN  IF S = {} THEN 0 ELSE CHOOSE j \in S : \A m \in S : j <= m

\* Mutant of Phase4: the `continue` for a path without an entry is missing,
\* and the lookup's zero value "" is taken as the correct hash.
Phase4NoSkip(ph, act, k) ==
    IF k > Len(act) THEN Finished(act)
    ELSE At("p4status", act, k, 1,
            ComponentID(act[k], IF act[k] \in DOMAIN ph THEN ph[act[k]] ELSE ""))

\* Lines 150-168: the loop of Phase 4 from path index k on; a path without
\* an entry is skipped (`continue`).
Phase4(ph, act, k) ==
    LET j == FirstKnown(ph, act, k)
    IN  IF j = 0 THEN Finished(act)
        ELSE At("p4status", act, j, 1, ComponentID(act[j], ph[act[j]]))

\* Mutant of Phase3: the loop of Phase 3 is left out.
Phase3Skipped(ph, act, k) == Phase4(ph, act, 1)

\* Lines 133-146: the loop of Phase 3 from path index k on; only paths with
\* an entry are ensured.
Phase3(ph, act, k) ==
    LET j == FirstKnown(ph, act, k)
    IN  IF j = 0 THEN Phase4(ph, act, 1)
        ELSE At("p3status", act, j, 1, ComponentID(act[j], ph[act[j]]))

\* Mutant of hashToDeploy: the lookup in the index is left out.
hashToDeployHead(ph, p) == headHashSentinel

\* Lines 116-119: the hash Phase 2 deploys for a path.
hashToDeploy(ph, p) == IF p \in DOMAIN ph THEN ph[p] ELSE headHashSentinel

\* Lines 115-129: the loop of Phase 2 from path index k on.
Phase2(ph, act, k) ==
    IF k > Len(act) THEN Phase3(ph, act, 1)
    ELSE At("p2status", act, k, 1, ComponentID(act[k], hashToDeploy(ph, act[k])))

\* Lines 106-111: the loop of Phase 1 from worker wk on.
Phase1(ph, act, wk) ==
    IF wk > NumWorkers THEN Phase2(ph, act, 1)
    ELSE At("p1status", act, 0, wk, NoID)

\* Mutant of StoreResolved: the resolved hash is not written back.
StoreNothing(ph, compID, hash) == ph

\* Lines 219-225 and 275-278: the index after an activation that returned
\* `hash`; only an activation asked with HEAD writes.
StoreResolved(ph, compID, hash) ==
    IF compID.Hash = headHashSentinel
    THEN [p \in DOMAIN ph \cup {ComponentPath(compID)} |->
            IF p = ComponentPath(compID) THEN hash ELSE ph[p]]
    ELSE ph

\* Mutant of DeployTargets: the target is drawn from the full fleet always.
DeployAnywhere(notRunning) == Workers

\* Lines 257-263: where ensureSomeWorkerIsRunning may deploy.
DeployTargets(notRunning) == IF notRunning # {} THEN notRunning ELSE Workers

\* ------------------------------------------- collaborators (not in src/)

\* activator.Activate: the hashes it may return for compID.
Resolved(compID) ==
    IF compID.Hash = headHashSentinel THEN Hashes ELSE {compID.Hash}

\* The worker after a successful activation of compID resolved to `hash`.
WorkerActivate(run, wk, compID, hash) ==
    [run EXCEPT ![wk] = @ \cup {ComponentID(ComponentPath(compID), hash)}]

\* The worker after a successful deactivation of compID.
WorkerDeactivate(run, wk, compID) == [run EXCEPT ![wk] = @ \ {compID}]

Call(op, compID, wk, phase, ret) ==
    [op |-> op, id |-> compID, w |-> wk, phase |-> phase, ret |-> ret]

EmptyMap == [p \in {} |-> ""]
NoFleet == [wk \in Workers |-> {}]

\* ------------------------------------------------ the pass: HandleDirtyState

\* The goroutines that can run HandleDirtyState: the reconciler goroutine
\* (line 66) and a goroutine that calls the exported method itself.
Executors == {"reconciler", "caller"}

\* The locals of the goroutine `self` in HandleDirtyState.
Frame(self) == IF self = "reconciler" THEN pass ELSE forced

\* The goroutine `self` goes on with the locals f; the other goroutine's
\* locals are its own.
Becomes(self, f) ==
    IF self = "reconciler"
    THEN pass' = f /\ forced' = forced
    ELSE forced' = f /\ pass' = pass

passFrame == <<dbActive, pathHashMux, intakeVars, snapshot, running0>>

\* Mutant of HandleDirtyStateLock: the pass goes on without waiting for the
\* mutex.
LockNotExclusive(self) ==
    /\ Frame(self).pc = "lock"
    /\ pathHashMux' = self
    /\ Becomes(self, [Frame(self) EXCEPT !.pc = "find"])
    /\ snapshot' = pathHashes
    /\ running0' = running
    /\ calls' = <<>>
    /\ nCalls' = 0
    /\ hist' = [hist EXCEPT !.sawApplied = hist.nApplied,
                            !.fresh = hist.written,
                            !.written = {}]
    /\ UNCHANGED <<running, dbActive, pathHashes, pathHashUpdater,
                   dirtyStateNotifier, applier>>

\* Lines 94-95: mgr.pathHashMux.Lock(); the goroutine blocks while it is held.
HandleDirtyStateLock(self) ==
    /\ Frame(self).pc = "lock"
    /\ pathHashMux = "free"
    /\ pathHashMux' = self
    /\ Becomes(self, [Frame(self) EXCEPT !.pc = "find"])
    /\ snapshot' = pathHashes
    /\ running0' = running
    /\ calls' = <<>>
    /\ nCalls' = 0
    /\ hist' = [hist EXCEPT !.sawApplied = hist.nApplied,
                            !.fresh = hist.written,
                            !.written = {}]
    /\ UNCHANGED <<running, dbActive, pathHashes, pathHashUpdater,
                   dirtyStateNotifier, applier>>

\* Lines 99-102: mgr.driver.FindActiveComponents().
FindActiveComponents(self) ==
    /\ Frame(self).pc = "find"
    /\ \/ Becomes(self, Abort(<<>>, "db"))
       \/ Becomes(self, Phase1(pathHashes, dbActive, 1))
    /\ UNCHANGED <<running, pathHashes, calls, nCalls, passFrame>>

\* Lines 175-180: w.Status() of deactivateNonactive, then FindNonactive.
deactivateNonactiveStatus(self) ==
    LET me == Frame(self)
    IN  /\ me.pc = "p1status"
        /\ nCalls' = nCalls + 1
        /\ \/ Becomes(self, Abort(me.active, "status"))
           \/ LET nonActive == FindNonactive(running[me.w], me.active)
              IN  Becomes(self,
                      IF nonActive = {}
                      THEN Phase1(pathHashes, me.active, me.w + 1)
                      ELSE [me EXCEPT !.pc = "p1deact", !.todo = nonActive])
        /\ UNCHANGED <<running, pathHashes, calls, passFrame>>

\* Lines 181-188: one mgr.activator.Deactivate of the loop over nonActive.
deactivateNonactiveDeactivate(self) ==
    LET me == Frame(self)
    IN  /\ me.pc = "p1deact"
        /\ nCalls' = nCalls + 1
        /\ \E id \in me.todo :
            \/ /\ Becomes(self, Abort(me.active, "deactivate"))
               /\ calls' = Append(calls, Call("Deactivate", id, me.w, 1, "error"))
               /\ UNCHANGED running
            \/ /\ running' = WorkerDeactivate(running, me.w, id)
               /\ calls' = Append(calls, Call("Deactivate", id, me.w, 1, "ok"))
               /\ Becomes(self,
                      IF me.todo = {id}
                      THEN Phase1(pathHashes, me.active, me.w + 1)
                      ELSE [me EXCEPT !.todo = @ \ {id}])
        /\ UNCHANGED <<pathHashes, passFrame>>

\* Lines 199-209: one w.Status() of the scan of activateMissing.
activateMissingStatus(self) ==
    LET me == Frame(self)
    IN  /\ me.pc = "p2status"
        /\ nCalls' = nCalls + 1
        /\ \/ Becomes(self, Abort(me.active, "status"))
           \/ Becomes(self,
                  IF ContainsPath(running[me.w], ComponentPath(me.compID))
                  THEN Phase2(pathHashes, me.active, me.i + 1)
                  ELSE IF me.w < NumWorkers
                       THEN [me EXCEPT !.w = @ + 1]
                       ELSE [me EXCEPT !.pc = "p2act", !.w = 0])
        /\ UNCHANGED <<running, pathHashes, calls, passFrame>>

\* Lines 211-227: a random worker, mgr.activator.Activate, the HEAD write.
activateMissingActivate(self) ==
    LET me == Frame(self)
    IN  /\ me.pc = "p2act"
        /\ nCalls' = nCalls + 1
        /\ \E randomWorker \in Workers :
            \/ /\ Becomes(self, Abort(me.active, "activate"))
               /\ calls' = Append(calls,
                      Call("Activate", me.compID, randomWorker, 2, "error"))
               /\ UNCHANGED <<running, pathHashes>>
            \/ \E activatedHash \in Resolved(me.compID) :
                /\ running' = WorkerActivate(running, randomWorker, me.compID,
                                             activatedHash)
                /\ calls' = Append(calls,
                      Call("Activate", me.compID, randomWorker, 2, activatedHash))
                /\ pathHashes' = StoreResolved(pathHashes, me.compID, activatedHash)
                /\ Becomes(self, Phase2(pathHashes', me.active, me.i + 1))
        /\ UNCHANGED passFrame

\* Lines 238-267: one w.Status() of the scan of ensureSomeWorkerIsRunning;
\* after the last worker the target is drawn.
ensureSomeWorkerIsRunningStatus(self) ==
    LET me == Frame(self)
    IN  /\ me.pc = "p3status"
        /\ nCalls' = nCalls + 1
        /\ \/ Becomes(self, Abort(me.active, "status"))
           \/ /\ ContainsExactly(running[me.w], me.compID)
              /\ Becomes(self, Phase3(pathHashes, me.active, me.i + 1))
           \/ /\ ~ContainsExactly(running[me.w], me.compID)
              /\ LET nr == IF ContainsPath(running[me.w], ComponentPath(me.compID))
                           THEN me.notRunningAnyVersion
                           ELSE me.notRunningAnyVersion \cup {me.w}
                 IN  IF me.w < NumWorkers
                     THEN Becomes(self, [me EXCEPT !.w = @ + 1,
                                                   !.notRunningAnyVersion = nr])
                     ELSE \E target \in DeployTargets(nr) :
                            Becomes(self,
                                [me EXCEPT
                                   !.pc = IF nr # {} THEN "p3act" ELSE "p3deact",
                                   !.w = 0,
                                   !.notRunningAnyVersion = nr,
                                   !.workerToDeployTo = target])
        /\ UNCHANGED <<running, pathHashes, calls, passFrame>>

\* Lines 261-266: everyone runs some version: mgr.activator.Deactivate(compID,
\* workerToDeployTo), with the compID that is to be deployed.
ensureSomeWorkerIsRunningDeactivate(self) ==
    LET me == Frame(self)
    IN  /\ me.pc = "p3deact"
        /\ nCalls' = nCalls + 1
        /\ \/ /\ Becomes(self, Abort(me.active, "deactivate"))
              /\ calls' = Append(calls, Call("Deactivate", me.compID,
                                             me.workerToDeployTo, 3, "error"))
              /\ UNCHANGED running
           \/ /\ running' = WorkerDeactivate(running, me.workerToDeployTo,
                                             me.compID)
              /\ calls' = Append(calls, Call("Deactivate", me.compID,
                                             me.workerToDeployTo, 3, "ok"))
              /\ Becomes(self, [me EXCEPT !.pc = "p3act"])
        /\ UNCHANGED <<pathHashes, passFrame>>

\* Lines 269-280: mgr.activator.Activate(compID, workerToDeployTo), the HEAD
\* write.
ensureSomeWorkerIsRunningActivate(self) ==
    LET me == Frame(self)
    IN  /\ me.pc = "p3act"
        /\ nCalls' = nCalls + 1
        /\ \/ /\ Becomes(self, Abort(me.active, "activate"))
              /\ calls' = Append(calls, Call("Activate", me.compID,
                                             me.workerToDeployTo, 3, "error"))
              /\ UNCHANGED <<running, pathHashes>>
           \/ \E deployedHash \in Resolved(me.compID) :
                /\ running' = WorkerActivate(running, me.workerToDeployTo,
                                             me.compID, deployedHash)
                /\ calls' = Append(calls, Call("Activate", me.compID,
                                      me.workerToDeployTo, 3, deployedHash))
                /\ pathHashes' = StoreResolved(pathHashes, me.compID, deployedHash)
                /\ Becomes(self, Phase3(pathHashes', me.active, me.i + 1))
        /\ UNCHANGED passFrame

\* Mutant of Phase4Next: the loop over the workers stops after the first.
Phase4FirstWorkerOnly(ph, ps) == Phase4(ph, ps.active, ps.i + 1)

\* Lines 162-167: after worker pass.w of Phase 4, the next worker or the
\* next path.
Phase4Next(ph, ps) ==
    IF ps.w < NumWorkers
    THEN At("p4status", ps.active, ps.i, ps.w + 1, ps.compID)
    ELSE Phase4(ph, ps.active, ps.i + 1)

\* Lines 284-290: w.Status() of deactivateIfHashDiffers and its test.
deactivateIfHashDiffersStatus(self) ==
    LET me == Frame(self)
    IN  /\ me.pc = "p4status"
        /\ nCalls' = nCalls + 1
        /\ \/ Becomes(self, Abort(me.active, "status"))
           \/ LET stale == HashDiffers(running[me.w], me.compID)
              IN  Becomes(self,
                      IF stale = {}
                      THEN Phase4Next(pathHashes, me)
                      ELSE [me EXCEPT !.pc = "p4deact", !.todo = stale])
        /\ UNCHANGED <<running, pathHashes, calls, passFrame>>

\* Lines 291-295: one mgr.activator.Deactivate(runningComp.ID, w).
deactivateIfHashDiffersDeactivate(self) ==
    LET me == Frame(self)
    IN  /\ me.pc = "p4deact"
        /\ nCalls' = nCalls + 1
        /\ \E id \in me.todo :
            \/ /\ Becomes(self, Abort(me.active, "deactivate"))
               /\ calls' = Append(calls, Call("Deactivate", id, me.w, 4, "error"))
               /\ UNCHANGED running
            \/ /\ running' = WorkerDeactivate(running, me.w, id)
               /\ calls' = Append(calls, Call("Deactivate", id, me.w, 4, "ok"))
               /\ Becomes(self,
                      IF me.todo = {id}
                      THEN Phase4Next(pathHashes, me)
                      ELSE [me EXCEPT !.todo = @ \ {id}])
        /\ UNCHANGED <<pathHashes, passFrame>>

\* Mutant of HandleDirtyStateReturn: the Unlock is not deferred and the
\* error returns leave without it.
ReturnLockedOnError(self) ==
    /\ Frame(self).pc = "done"
    /\ pathHashMux' = IF Frame(self).err = NoErr THEN "free" ELSE pathHashMux
    /\ Becomes(self, Idle)
    /\ calls' = <<>>
    /\ nCalls' = 0
    /\ snapshot' = EmptyMap
    /\ running0' = NoFleet
    /\ hist' = [hist EXCEPT !.lastErr = Frame(self).err]
    /\ UNCHANGED <<running, dbActive, pathHashes, pathHashUpdater,
                   dirtyStateNotifier, applier>>

\* Mutant of HandleDirtyStateReturn: a pass that ends with an error raises
\* the dirty signal for a retry.
ReturnRetriesOnError(self) ==
    /\ Frame(self).pc = "done"
    /\ pathHashMux' = "free"
    /\ Becomes(self, Idle)
    /\ calls' = <<>>
    /\ nCalls' = 0
    /\ snapshot' = EmptyMap
    /\ running0' = NoFleet
    /\ hist' = [hist EXCEPT !.lastErr = Frame(self).err]
    /\ dirtyStateNotifier' = IF Frame(self).err = NoErr THEN dirtyStateNotifier
                             ELSE 1
    /\ UNCHANGED <<running, dbActive, pathHashes, pathHashUpdater, applier>>

\* Line 95 (defer mgr.pathHashMux.Unlock()) and the return to the caller:
\* lines 66-69 log the error and loop; hist.lastErr is the error of the pass
\* until the next pass is started.
HandleDirtyStateReturn(self) ==
    /\ Frame(self).pc = "done"
    /\ pathHashMux' = "free"
    /\ Becomes(self, Idle)
    /\ calls' = <<>>
    /\ nCalls' = 0
    /\ snapshot' = EmptyMap
    /\ running0' = NoFleet
    /\ hist' = [hist EXCEPT !.lastErr = Frame(self).err]
    /\ UNCHANGED <<running, dbActive, pathHashes, pathHashUpdater,
                   dirtyStateNotifier, applier>>

HandleDirtyState(self) ==
    \/ HandleDirtyStateLock(self)
    \/ FindActiveComponents(self)
    \/ deactivateNonactiveStatus(self)
    \/ deactivateNonactiveDeactivate(self)
    \/ activateMissingStatus(self)
    \/ activateMissingActivate(self)
    \/ ensureSomeWorkerIsRunningStatus(self)
    \/ ensureSomeWorkerIsRunningDeactivate(self)
    \/ ensureSomeWorkerIsRunningActivate(self)
    \/ deactivateIfHashDiffersStatus(self)
    \/ deactivateIfHashDiffersDeactivate(self)
    \/ HandleDirtyStateReturn(self)

\* -------------------------------------------- a direct (forced) invocation

\* HandleDirtyState is exported: the goroutine `self` calls it and runs one
\* pass.
CallHandleDirtyState(self) ==
    /\ Frame(self).pc = "wait"
    /\ Becomes(self, [Frame(self) EXCEPT !.pc = "lock"])
    /\ hist' = [hist EXCEPT !.lastErr = NoErr]
    /\ UNCHANGED <<running, dbActive, pathHashes, pathHashMux, pathHashUpdater,
                   dirtyStateNotifier, applier, calls, nCalls, snapshot,
                   running0>>

Hist0 ==
    [nEnq |-> 0, nApplied |-> 0, nNotify |-> 0, nPass |-> 0, sawApplied |-> 0,
     burst |-> TRUE, lastEnq |-> EmptyMap, lastApplied |-> EmptyMap,
     written |-> {}, fresh |-> {}, overwrote |-> FALSE, lastErr |-> NoErr]

ApplierIdle == [pc |-> "recv", updatedID |-> NoID]

\* Fleets with at most MaxInitRunning running components in all.
InitFleets ==
    LET Slots == Workers \X RunnableIDs
    IN  {[wk \in Workers |-> {id \in RunnableIDs : <<wk, id>> \in S}] :
            S \in {T \in SUBSET Slots : Cardinality(T) <= MaxInitRunning}}

\* Version Index contents that updates and HEAD resolutions produce.
Indexes ==
    UNION {[D -> Hashes \cup {headHashSentinel}] : D \in SUBSET Paths}

DesiredLists == {<<>>, <<PathAX>>, <<PathAX, PathAY>>}

PassInit ==
    /\ running \in InitFleets
    /\ dbActive \in DesiredLists
    /\ pathHashes \in Indexes
    /\ pathHashMux = "free"
    /\ pathHashUpdater = <<>>
    /\ dirtyStateNotifier = 0
    /\ applier = ApplierIdle
    /\ pass = Idle
    /\ forced = Idle
    /\ calls = <<>>
    /\ nCalls = 0
    /\ snapshot = EmptyMap
    /\ running0 = NoFleet
    /\ hist = Hist0

PassNext == CallHandleDirtyState("reconciler") \/ HandleDirtyState("reconciler")

PassSpec == PassInit /\ [][PassNext]_vars

\* ------------------------------------------------------------ event intake

MapSet(m, p, h) == [q \in DOMAIN m \cup {p} |-> IF q = p THEN h ELSE m[q]]

\* Mutant of NotifyComponentStateChanged: every raise is buffered.
NotifyUncoalesced(buffered) == buffered + 1

\* Lines 78-81: the select with a default case on a channel of capacity 1
\* (line 32): the channel's length afterwards.
NotifyComponentStateChanged(buffered) == IF buffered < 1 THEN buffered + 1 ELSE buffered

\* Update events the producers send.
UpdateIDs == {ComponentID(PathAX, h) : h \in Hashes \cup {headHashSentinel}}

\* Lines 84-86: mgr.pathHashUpdater <- compID; blocks while the channel is full.
UpdateComponentHash ==
    /\ hist.nEnq < MaxUpdates
    /\ Len(pathHashUpdater) < updaterChanSize
    /\ \E compID \in UpdateIDs :
        /\ pathHashUpdater' = Append(pathHashUpdater, compID)
        /\ hist' = [hist EXCEPT
                      !.nEnq = @ + 1,
                      !.burst = @ /\ hist.nPass = 0,
                      !.overwrote = @ \/ (/\ ComponentPath(compID) \in DOMAIN hist.lastEnq
                                           /\ hist.lastEnq[ComponentPath(compID)] # compID.Hash),
                      !.lastEnq = MapSet(@, ComponentPath(compID), compID.Hash)]
    /\ UNCHANGED <<running, dbActive, pathHashes, pathHashMux,
                   dirtyStateNotifier, applier, pass, forced, calls, nCalls, snapshot,
                   running0>>

\* Lines 76-82, called by a collaborator.
Notify ==
    /\ hist.nNotify < MaxNotify
    /\ dirtyStateNotifier' = NotifyComponentStateChanged(dirtyStateNotifier)
    /\ hist' = [hist EXCEPT !.nNotify = @ + 1]
    /\ UNCHANGED <<running, dbActive, pathHashes, pathHashMux, pathHashUpdater,
                   applier, pass, forced, calls, nCalls, snapshot, running0>>

\* The exploration follows the applier for MaxApplied updates; a run that
\* starts with an empty channel has no more to apply.
MaxApplied == MaxUpdates

\* Mutant of ApplierRecv: the newest event is taken first.
ApplierRecvNewest ==
    /\ applier.pc = "recv"
    /\ pathHashUpdater # <<>>
    /\ hist.nApplied < MaxApplied
    /\ applier' = [pc |-> "lock",
                   updatedID |-> pathHashUpdater[Len(pathHashUpdater)]]
    /\ pathHashUpdater' = SubSeq(pathHashUpdater, 1, Len(pathHashUpdater) - 1)
    /\ UNCHANGED <<running, dbActive, pathHashes, pathHashMux,
                   dirtyStateNotifier, pass, forced, calls, nCalls, snapshot, running0,
                   hist>>

\* Line 48: updatedID := <-pathHashUpdater.
ApplierRecv ==
    /\ applier.pc = "recv"
    /\ pathHashUpdater # <<>>
    /\ hist.nApplied < MaxApplied
    /\ applier' = [pc |-> "lock", updatedID |-> Head(pathHashUpdater)]
    /\ pathHashUpdater' = Tail(pathHashUpdater)
    /\ UNCHANGED <<running, dbActive, pathHashes, pathHashMux,
                   dirtyStateNotifier, pass, forced, calls, nCalls, snapshot, running0,
                   hist>>

\* Mutant of ApplierLock: the applier goes on without taking the mutex.
ApplierSkipsLock ==
    /\ applier.pc = "lock"
    /\ applier' = [applier EXCEPT !.pc = "store"]
    /\ UNCHANGED <<running, dbActive, pathHashes, pathHashMux, pathHashUpdater,
                   dirtyStateNotifier, pass, forced, calls, nCalls, snapshot, running0,
                   hist>>

\* Line 54: mgr.pathHashMux.Lock().
ApplierLock ==
    /\ applier.pc = "lock"
    /\ pathHashMux = "free"
    /\ pathHashMux' = "applier"
    /\ applier' = [applier EXCEPT !.pc = "store"]
    /\ UNCHANGED <<running, dbActive, pathHashes, pathHashUpdater,
                   dirtyStateNotifier, pass, forced, calls, nCalls, snapshot, running0,
                   hist>>

\* Mutant of ApplierStore: the Unlock of line 56 is missing.
ApplierStoreKeepsLock ==
    /\ applier.pc = "store"
    /\ pathHashes' = MapSet(pathHashes, ComponentPath(applier.updatedID),
                            applier.updatedID.Hash)
    /\ applier' = [applier EXCEPT !.pc = "notify"]
    /\ hist' = [hist EXCEPT
                  !.nApplied = @ + 1,
                  !.lastApplied = MapSet(@, ComponentPath(applier.updatedID),
                                         applier.updatedID.Hash),
                  !.written = @ \cup {ComponentPath(applier.updatedID)}]
    /\ UNCHANGED <<running, dbActive, pathHashUpdater, dirtyStateNotifier,
                   pathHashMux, pass, forced, calls, nCalls, snapshot, running0>>

\* Lines 55-56: mgr.pathHashes[path] = updatedID.Hash; Unlock().
ApplierStore ==
    /\ applier.pc = "store"
    /\ pathHashes' = MapSet(pathHashes, ComponentPath(applier.updatedID),
                            applier.updatedID.Hash)
    /\ pathHashMux' = "free"
    /\ applier' = [applier EXCEPT !.pc = "notify"]
    /\ hist' = [hist EXCEPT
                  !.nApplied = @ + 1,
                  !.lastApplied = MapSet(@, ComponentPath(applier.updatedID),
                                         applier.updatedID.Hash),
                  !.written = @ \cup {ComponentPath(applier.updatedID)}]
    /\ UNCHANGED <<running, dbActive, pathHashUpdater, dirtyStateNotifier,
                   pass, forced, calls, nCalls, snapshot, running0>>

\* Mutant of ApplierNotify: the applier does not raise the dirty signal.
ApplierForgetsNotify ==
    /\ applier.pc = "notify"
    /\ applier' = ApplierIdle
    /\ UNCHANGED <<running, dbActive, pathHashes, pathHashMux, pathHashUpdater,
                   dirtyStateNotifier, pass, forced, calls, nCalls, snapshot, running0,
                   hist>>

\* Mutant of ApplierNotify: a plain send on the channel, which blocks while
\* the signal is raised.
ApplierNotifyBlocking ==
    /\ applier.pc = "notify"
    /\ dirtyStateNotifier < 1
    /\ dirtyStateNotifier' = dirtyStateNotifier + 1
    /\ applier' = ApplierIdle
    /\ UNCHANGED <<running, dbActive, pathHashes, pathHashMux, pathHashUpdater,
                   pass, forced, calls, nCalls, snapshot, running0, hist>>

\* Line 58: mgr.NotifyComponentStateChanged().
ApplierNotify ==
    /\ applier.pc = "notify"
    /\ dirtyStateNotifier' = NotifyComponentStateChanged(dirtyStateNotifier)
    /\ applier' = ApplierIdle
    /\ UNCHANGED <<running, dbActive, pathHashes, pathHashMux, pathHashUpdater,
                   pass, forced, calls, nCalls, snapshot, running0, hist>>

Applier == ApplierRecv \/ ApplierLock \/ ApplierStore \/ ApplierNotify

\* Line 65: <-mgr.dirtyStateNotifier, then line 66 calls HandleDirtyState.
RecvDirty ==
    /\ pass.pc = "wait"
    /\ dirtyStateNotifier > 0
    /\ dirtyStateNotifier' = dirtyStateNotifier - 1
    /\ pass' = [pass EXCEPT !.pc = "lock"]
    /\ hist' = [hist EXCEPT !.nPass = @ + 1, !.lastErr = NoErr]
    /\ UNCHANGED <<running, dbActive, pathHashes, pathHashMux, pathHashUpdater,
                   applier, forced, calls, nCalls, snapshot, running0>>

Reconciler == RecvDirty \/ HandleDirtyState("reconciler")

\* The fleets the event-intake specification starts from: idle, every
\* worker on {a,x,h1}, the first worker on the non-desired {a,y,h1}, the first
\* worker on {a,x,h1}.
IntakeFleets ==
    {NoFleet,
     [wk \in Workers |-> {ComponentID(PathAX, "h1")}],
     [wk \in Workers |-> IF wk = 1 THEN {ComponentID(PathAY, "h1")} ELSE {}],
     [wk \in Workers |-> IF wk = 1 THEN {ComponentID(PathAX, "h1")} ELSE {}]}

\* NewActionManager, lines 28-74: empty index, empty channels, both
\* goroutines at their receive.
Init ==
    /\ running \in IntakeFleets
    /\ dbActive = <<PathAX>>
    /\ pathHashes = EmptyMap
    /\ pathHashMux = "free"
    /\ pathHashUpdater = <<>>
    /\ dirtyStateNotifier = 0
    /\ applier = ApplierIdle
    /\ pass = Idle
    /\ forced = Idle
    /\ calls = <<>>
    /\ nCalls = 0
    /\ snapshot = EmptyMap
    /\ running0 = NoFleet
    /\ hist = Hist0

Next == UpdateComponentHash \/ Notify \/ Applier \/ Reconciler

Spec == Init /\ [][Next]_vars

FairSpec == Spec /\ WF_vars(Applier) /\ WF_vars(Reconciler)

\* ------------------------------------------------- a full version-update queue

\* The channel filled to its capacity by producers, with updates of the
\* desired path to h2, before the applier has received anything.
FullQueue == [k \in 1..updaterChanSize |-> ComponentID(PathAX, "h2")]

\* Every worker runs h1 of the desired path, and the first worker a
\* non-desired component beside it.
BusyFleet ==
    [wk \in Workers |->
        IF wk = 1 THEN {ComponentID(PathAX, "h1"), ComponentID(PathAY, "h1")}
        ELSE {ComponentID(PathAX, "h1")}]

QueueInit ==
    /\ running \in {NoFleet, BusyFleet}
    /\ dbActive = <<PathAX>>
    /\ pathHashes = EmptyMap
    /\ pathHashMux = "free"
    /\ pathHashUpdater = FullQueue
    /\ dirtyStateNotifier = 0
    /\ applier = ApplierIdle
    /\ pass = Idle
    /\ forced = Idle
    /\ calls = <<>>
    /\ nCalls = 0
    /\ snapshot = EmptyMap
    /\ running0 = NoFleet
    /\ hist = Hist0

QueueSpec == QueueInit /\ [][Next]_vars

FairQueueSpec == QueueSpec /\ WF_vars(Applier) /\ WF_vars(Reconciler)

\* ------------------------------------------- a forced run beside the intake

\* A goroutine that calls HandleDirtyState itself (a forced or test run),
\* again and again.
Caller == CallHandleDirtyState("caller") \/ HandleDirtyState("caller")

\* The reconciler goroutine, woken by collaborators, and the forced runs.
ForcedNext == Notify \/ Reconciler \/ Caller

\* The intake is idle: the Version Index is empty still, or holds h2 for the
\* desired path from an update applied before.
ForcedInit ==
    /\ running \in IntakeFleets
    /\ dbActive = <<PathAX>>
    /\ pathHashes \in {EmptyMap, MapSet(EmptyMap, PathAX, "h2")}
    /\ pathHashMux = "free"
    /\ pathHashUpdater = <<>>
    /\ dirtyStateNotifier = 0
    /\ applier = ApplierIdle
    /\ pass = Idle
    /\ forced = Idle
    /\ calls = <<>>
    /\ nCalls = 0
    /\ snapshot = EmptyMap
    /\ running0 = NoFleet
    /\ hist = Hist0

ForcedSpec == ForcedInit /\ [][ForcedNext]_vars

\* ------------------------------------------------------------------ claims

InPass == pass.pc \notin {"wait", "lock"}
Completed == pass.pc = "done" /\ pass.err = NoErr
Desired(act) == {act[k] : k \in 1..Len(act)}
RunsPath(run, p) == \E wk \in Workers : ContainsPath(run[wk], p)
RunnersOf(run, id) == {wk \in Workers : id \in run[wk]}
NoneUndesired(run, act) ==
    \A wk \in Workers : \A c \in run[wk] : ComponentPath(c) \in Desired(act)
Issued(op) == {k \in 1..Len(calls) : calls[k].op = op}

\* C1 as stated: after a pass without failure, for every desired path
\* (with an entry in the Version Index) EXACTLY ONE worker runs the
\* component with the index's hash, and no worker runs a non-desired path.
C1_ExactlyOneWorker ==
    Completed =>
        /\ \A p \in Desired(pass.active) :
              p \in DOMAIN pathHashes =>
                 Cardinality(RunnersOf(running, ComponentID(p, pathHashes[p]))) = 1
        /\ NoneUndesired(running, pass.active)

\* C1 amended: after ONE pass without failure, every desired path runs
\* somewhere; for every desired path with an entry in the Version Index the
\* entry is a concrete hash, AT LEAST ONE worker runs the component with that
\* hash and no worker runs another hash of the path; and no worker runs a
\* non-desired path.
C1_Convergence ==
    Completed =>
        /\ \A p \in Desired(pass.active) :
              /\ RunsPath(running, p)
              /\ p \in DOMAIN pathHashes =>
                   /\ pathHashes[p] \in Hashes
                   /\ RunnersOf(running, ComponentID(p, pathHashes[p])) # {}
                   /\ \A wk \in Workers :
                        HashDiffers(running[wk], ComponentID(p, pathHashes[p])) = {}
        /\ NoneUndesired(running, pass.active)

\* A pass that had to activate and to deactivate has completed for two
\* desired paths.
C1_Witness ==
    /\ Completed
    /\ Len(pass.active) = 2
    /\ Issued("Activate") # {}
    /\ Issued("Deactivate") # {}

\* The hash a pass that began with index `seen` observed for p is what was
\* last enqueued (`last`), or the concrete hash an earlier pass resolved a
\* HEAD to.
Observes(seen, last, p) ==
    /\ p \in DOMAIN seen
    /\ \/ seen[p] = last[p]
       \/ last[p] = headHashSentinel /\ seen[p] \in Hashes

\* C2 as stated: the updates enqueued before the reconciler has received any
\* dirty signal (no collaborator raising it) produce at most ONE pass, and
\* that pass observes the last hash enqueued, in every interleaving.
C2_ExactlyOnePass ==
    (hist.burst /\ hist.nNotify = 0) =>
        /\ hist.nPass <= 1
        /\ InPass => \A p \in DOMAIN hist.lastEnq : Observes(snapshot, hist.lastEnq, p)

\* C2 amended: at most one reconciliation is pending in the dirty signal at
\* any time; N applied updates produce at most N passes (plus one for each
\* raise by a collaborator); and a pass that begins when every update
\* enqueued so far has been applied observes, for each path, the last hash
\* enqueued.
C2_Coalescing ==
    /\ dirtyStateNotifier <= 1
    /\ hist.nPass <= hist.nApplied + hist.nNotify
    /\ (InPass /\ hist.sawApplied = hist.nEnq) =>
          \A p \in DOMAIN hist.lastEnq : Observes(snapshot, hist.lastEnq, p)

\* Two updates were applied and coalesced into the one pass now running.
C2_Witness ==
    /\ InPass
    /\ hist.nEnq = 2 /\ hist.nApplied = 2 /\ hist.sawApplied = 2
    /\ hist.nPass = 1 /\ hist.nNotify = 0
    /\ dirtyStateNotifier = 0

\* C3: under fair scheduling, after the k-th update has been written to the
\* Version Index a pass takes the lock (hist.sawApplied counts the updates
\* written when the last pass took it); and a pass reads, for every path
\* written since the pass before it (hist.fresh), the hash of the last update
\* applied to that path.
C3_NoLostWakeup ==
    /\ \A k \in 1..MaxUpdates : (hist.nApplied >= k) ~> (hist.sawApplied >= k)
    /\ [](InPass => \A p \in hist.fresh :
              p \in DOMAIN snapshot /\ snapshot[p] = hist.lastApplied[p])

\* The second update was written while the signal of the first was still
\* raised (its own raise has not run yet), and the one pass sees both.
C3_Witness ==
    /\ InPass
    /\ hist.nApplied = 2 /\ hist.sawApplied = 2 /\ hist.nPass = 1
    /\ hist.nNotify = 0
    /\ hist.fresh # {}
    /\ applier.pc = "notify"

\* The case of C4: p is desired, has no entry in the index when the pass
\* takes the lock, and some worker runs a version of it then.
Tolerated(p) ==
    /\ p \in Desired(pass.active)
    /\ p \notin DOMAIN snapshot
    /\ RunsPath(running0, p)

\* C4: a pass issues no Deactivate for a component of a path that is desired,
\* runs somewhere and has no entry in the Version Index when the pass starts.
C4_NoSpuriousTeardown ==
    \A k \in Issued("Deactivate") : ~Tolerated(ComponentPath(calls[k].id))

\* A pass has completed that left such a path alone while it deactivated
\* something else.
C4_Witness ==
    /\ Completed
    /\ \E p \in Paths : Tolerated(p)
    /\ Issued("Deactivate") # {}

\* A converged fleet: every desired path has an entry whose component runs
\* on a worker, no worker runs another hash of a desired path, and no worker
\* runs a non-desired path.
Converged(run, ph, act) ==
    /\ \A p \in Desired(act) :
          /\ p \in DOMAIN ph
          /\ RunnersOf(run, ComponentID(p, ph[p])) # {}
          /\ \A wk \in Workers :
                \A c \in run[wk] : ComponentPath(c) = p => c.Hash = ph[p]
    /\ NoneUndesired(run, act)

PastFind == pass.pc \notin {"wait", "lock", "find"}

\* C5: a pass that starts on a converged fleet issues no Activate and no
\* Deactivate, leaves the Version Index as it was and the fleet as it was.
C5_Idempotence ==
    (PastFind /\ pass.err # "db" /\ Converged(running0, snapshot, pass.active)) =>
        /\ calls = <<>>
        /\ pathHashes = snapshot
        /\ running = running0

\* A pass over two desired paths has completed on a converged fleet, after
\* querying the workers.
C5_Witness ==
    /\ Completed
    /\ Len(pass.active) = 2
    /\ Converged(running0, snapshot, pass.active)
    /\ nCalls > 0

\* The phase the pass is in (5: it has returned from Phase 4).
PhaseOf(pc) ==
    CASE pc \in {"p1status", "p1deact"} -> 1
      [] pc \in {"p2status", "p2act"} -> 2
      [] pc \in {"p3status", "p3deact", "p3act"} -> 3
      [] pc \in {"p4status", "p4deact"} -> 4
      [] OTHER -> 5

\* C6: the calls of a pass are issued in phase order 1, 2, 3, 4 (so every
\* Phase 1 Deactivate precedes every Phase 2 Activate, and every Phase 3
\* Activate precedes every Phase 4 Deactivate), the pass never is in a phase
\* before that of a call it has issued, and when Phase 4 is about to
\* deactivate a stale version of a path some worker runs the correct version.
C6_InPassOrdering ==
    /\ \A j, k \in 1..Len(calls) : j < k => calls[j].phase <= calls[k].phase
    /\ \A k \in 1..Len(calls) : PastFind => calls[k].phase <= PhaseOf(pass.pc)
    /\ pass.pc = "p4deact" => RunnersOf(running, pass.compID) # {}

\* Phase 4 is about to deactivate a stale version of a path whose correct
\* version Phase 3 has activated, after a call of an earlier phase.
C6_Witness ==
    /\ pass.pc = "p4deact"
    /\ \E k \in 1..Len(calls) :
          /\ calls[k].phase = 3 /\ calls[k].op = "Activate"
          /\ ComponentPath(calls[k].id) = ComponentPath(pass.compID)
    /\ \E k \in 1..Len(calls) : calls[k].phase < 3

\* C7: a failed call is the last call of its pass and the pass is over with
\* an error; once a pass has an error it issues no further call (Status
\* included), changes no worker (no rollback) and its only step is the return,
\* which releases the Version Index lock; the reconciler never holds the lock
\* outside a pass.
C7_ErrorAbort ==
    /\ [](\A k \in 1..Len(calls) :
            calls[k].ret = "error" =>
               k = Len(calls) /\ pass.pc = "done" /\ pass.err # NoErr)
    /\ [](pass.err # NoErr => pass.pc = "done")
    /\ [](pass.pc \in {"wait", "lock"} => pathHashMux # "reconciler")
    /\ [][pass.err # NoErr =>
            /\ running' = running
            /\ pathHashes' = pathHashes
            /\ \/ nCalls' = nCalls /\ calls' = calls /\ pass' = pass
               \/ pass' = Idle /\ pathHashMux' = "free"]_vars

\* A pass has aborted on a failed Activate after a command that took effect,
\* while the applier waits for the lock with an update.
C7_Witness ==
    /\ pass.pc = "done"
    /\ pass.err = "activate"
    /\ Len(calls) >= 2
    /\ running # running0
    /\ applier.pc = "lock"

\* The pass resolved a HEAD for p to the hash h.
ResolvedByPass(p, h) ==
    \E k \in Issued("Activate") :
        /\ ComponentPath(calls[k].id) = p
        /\ calls[k].id.Hash = headHashSentinel
        /\ calls[k].ret = h

\* C8: while a pass holds the Version Index lock the update-applier writes
\* nothing (it waits at its Lock with the update it received, later updates
\* stay in the queue); so every entry the pass can read is the entry at the
\* start of the pass or a hash the pass itself resolved, and no entry
\* disappears.
C8_FrozenIndex ==
    /\ [][pathHashMux = "reconciler" =>
            /\ hist'.nApplied = hist.nApplied
            /\ hist'.lastApplied = hist.lastApplied
            /\ applier'.pc # "store"]_vars
    /\ [](InPass =>
            /\ pathHashMux = "reconciler"
            /\ DOMAIN snapshot \subseteq DOMAIN pathHashes
            /\ \A p \in DOMAIN pathHashes :
                  \/ p \in DOMAIN snapshot /\ pathHashes[p] = snapshot[p]
                  \/ ResolvedByPass(p, pathHashes[p]))

\* During a pass that has resolved a HEAD, the applier waits for the lock
\* with one update while another waits in the queue.
C8_Witness ==
    /\ InPass
    /\ pathHashes # snapshot
    /\ applier.pc = "lock"
    /\ pathHashUpdater # <<>>

\* The successful activations of the pass that were asked with HEAD.
HeadActivations ==
    {k \in Issued("Activate") :
        calls[k].id.Hash = headHashSentinel /\ calls[k].ret # "error"}

\* C9: a pass activates with HEAD in Phase 2 only a path whose entry was
\* missing or HEAD, and in Phase 3 only a path whose entry was HEAD; after a
\* successful activation with HEAD the entry of the path is, for the rest of
\* the pass, the concrete hash the activator returned, and whenever the pass
\* then works on that path (Phases 3 and 4) it uses that hash.
C9_HeadResolution ==
    \A k \in HeadActivations :
        LET p == ComponentPath(calls[k].id)
        IN  /\ calls[k].ret \in Hashes
            /\ p \in DOMAIN pathHashes /\ pathHashes[p] = calls[k].ret
            /\ calls[k].phase = 2 =>
                  (p \notin DOMAIN snapshot \/ snapshot[p] = headHashSentinel)
            /\ calls[k].phase = 3 =>
                  (p \in DOMAIN snapshot /\ snapshot[p] = headHashSentinel)
            /\ (pass.compID # NoID /\ ComponentPath(pass.compID) = p) =>
                  /\ PhaseOf(pass.pc) \in {3, 4}
                  /\ pass.compID.Hash = calls[k].ret

\* Phase 4 works, with the resolved hash, on a path that Phase 3 activated
\* with HEAD.
C9_Witness ==
    /\ pass.pc = "p4status"
    /\ \E k \in HeadActivations :
          /\ calls[k].phase = 3
          /\ ComponentPath(calls[k].id) = ComponentPath(pass.compID)

Drained == pathHashUpdater = <<>> /\ applier.pc \in {"recv", "notify"}

\* C10: once the version-update queue is drained every update enqueued has
\* been applied, the last one applied to a path is the last one enqueued for
\* it, and the entry of the path is the hash of that update, or the concrete
\* hash a pass resolved it to when that hash is HEAD.
C10_LastWriteWins ==
    Drained =>
        /\ hist.nApplied = hist.nEnq
        /\ hist.lastApplied = hist.lastEnq
        /\ \A p \in DOMAIN hist.lastEnq : Observes(pathHashes, hist.lastEnq, p)

\* Two updates with different hashes for one path have been applied and the
\* entry is the hash of the second.
C10_Witness ==
    /\ Drained
    /\ hist.nEnq = 2
    /\ hist.overwrote
    /\ pathHashes[PathAX] = hist.lastEnq[PathAX]

\* A step that raises the dirty signal: line 58 of the applier, or a call of
\* NotifyComponentStateChanged by a collaborator.
Raises ==
    \/ applier.pc = "notify" /\ applier'.pc = "recv"
    \/ hist'.nNotify = hist.nNotify + 1

\* C11: the dirty signal holds at most one pending reconciliation in every
\* reachable state; a raise never blocks (the applier's raise and a
\* collaborator's call are enabled whether the signal is raised or not); a
\* raise leaves the signal raised; and a raise of a signal that is already
\* raised changes nothing: the signal, the pass, the fleet and the Version
\* Index stay as they are.
C11_SingleSlotSignal ==
    /\ [](dirtyStateNotifier \in {0, 1})
    /\ [](applier.pc = "notify" => ENABLED ApplierNotify)
    /\ [](hist.nNotify < MaxNotify => ENABLED Notify)
    /\ [][Raises => dirtyStateNotifier' = 1]_vars
    /\ [][(Raises /\ dirtyStateNotifier = 1) =>
            /\ dirtyStateNotifier' = dirtyStateNotifier
            /\ pass' = pass
            /\ running' = running
            /\ pathHashes' = pathHashes
            /\ pathHashUpdater' = pathHashUpdater]_vars

\* The signal was raised three times (for two applied updates and by a
\* collaborator) before the reconciler received it, and one reconciliation
\* is pending.
C11_Witness ==
    /\ dirtyStateNotifier = 1
    /\ hist.nApplied = 2
    /\ hist.nNotify = 1
    /\ hist.nPass = 0
    /\ applier.pc = "recv"

\* Phase 3 has just deactivated on its target, every worker running some
\* version of the path, and is about to activate there.
MadeRoom ==
    /\ pass.pc = "p3act"
    /\ pass.notRunningAnyVersion = {}
    /\ calls # <<>>
    /\ calls[Len(calls)].op = "Deactivate"
    /\ calls[Len(calls)].phase = 3

\* C12 as stated: in Phase 3, when no worker runs {path, correctHash} and
\* every worker runs some wrong version of path, the Deactivate issued on the
\* target (a worker of the full fleet) is for the WRONG VERSION THE TARGET IS
\* RUNNING, and the Activate of {path, correctHash} follows on that target.
C12_DeactivatesTargetsVersion ==
    /\ MadeRoom =>
          LET c == calls[Len(calls)]
          IN  /\ c.w = pass.workerToDeployTo
              /\ c.w \in Workers
              /\ ComponentPath(c.id) = ComponentPath(pass.compID)
              /\ c.id.Hash # pass.compID.Hash
              /\ c.id \in running0[c.w]
    /\ \A k \in Issued("Activate") :
          (k > 1 /\ calls[k - 1].op = "Deactivate" /\ calls[k - 1].phase = 3) =>
              /\ calls[k].phase = 3
              /\ calls[k].w = calls[k - 1].w
              /\ ComponentPath(calls[k].id) = ComponentPath(calls[k - 1].id)

\* Every worker ran a wrong version of the path when the pass started, the
\* pass has deactivated on its target and has activated the correct version
\* there.
C12_Witness ==
    /\ Len(calls) >= 2
    /\ calls[Len(calls)].op = "Activate"
    /\ calls[Len(calls)].phase = 3
    /\ calls[Len(calls)].ret # "error"
    /\ calls[Len(calls) - 1].op = "Deactivate"
    /\ calls[Len(calls) - 1].phase = 3
    /\ \A wk \in Workers :
          HashDiffers(running0[wk], calls[Len(calls)].id) # {}

InPhase(n) == {k \in 1..Len(calls) : calls[k].phase = n}

\* C14: after a pass that completes without error no worker runs, for a
\* desired path with an entry in the Version Index, a component of that path
\* whose hash differs from the entry; every call of Phase 4 is a Deactivate
\* of a component of a desired path with an entry whose hash differs from the
\* entry; and Phase 4 issues it on a worker that runs that component at the
\* time of the call, which no longer runs it when the call has succeeded.
C14_Phase4Postcondition ==
    /\ [](Completed =>
            \A p \in Desired(pass.active) :
                p \in DOMAIN pathHashes =>
                    \A wk \in Workers : \A c \in running[wk] :
                        ComponentPath(c) = p => c.Hash = pathHashes[p])
    /\ [](\A k \in InPhase(4) :
            LET p == ComponentPath(calls[k].id)
            IN  /\ calls[k].op = "Deactivate"
                /\ p \in Desired(pass.active)
                /\ p \in DOMAIN pathHashes
                /\ calls[k].id.Hash # pathHashes[p])
    /\ [][(pass.pc = "p4deact" /\ calls' # calls) =>
            LET c == calls'[Len(calls')]
            IN  /\ c.phase = 4
                /\ c.w = pass.w
                /\ c.id \in running[c.w]
                /\ c.ret = "ok" => c.id \notin running'[c.w]]_vars

\* A pass has completed whose Phase 4 removed stale versions on two workers.
C14_Witness ==
    /\ Completed
    /\ \E j, k \in InPhase(4) :
          /\ calls[j].w # calls[k].w
          /\ calls[j].ret = "ok" /\ calls[k].ret = "ok"

\* The workers that run no version of the path p in the fleet run.
FreeWorkers(run, p) == {wk \in Workers : ~ContainsPath(run[wk], p)}

\* C15: when Phase 3 deploys {path, correctHash} and some worker runs no
\* version of path, the target of the Activate is a worker that runs no
\* version of path and Phase 3 issues no Deactivate for it; Phase 3 issues a
\* Deactivate only when every worker runs some version of the path.
C15_PlacementPreference ==
    /\ pass.pc \in {"p3deact", "p3act"} =>
          pass.notRunningAnyVersion = FreeWorkers(running, ComponentPath(pass.compID))
    /\ (pass.pc = "p3act" /\ pass.notRunningAnyVersion # {}) =>
          /\ pass.workerToDeployTo \in pass.notRunningAnyVersion
          /\ \A k \in InPhase(3) :
                calls[k].op = "Deactivate" =>
                    ComponentPath(calls[k].id) # ComponentPath(pass.compID)
    /\ pass.pc = "p3deact" => FreeWorkers(running, ComponentPath(pass.compID)) = {}
    /\ \A k \in InPhase(3) :
          LET free == FreeWorkers(running0, ComponentPath(calls[k].id))
          IN  /\ calls[k].op = "Deactivate" => free = {}
              /\ (calls[k].op = "Activate" /\ free # {}) => calls[k].w \in free

\* The rollout with a free worker: worker 1 ran h1 of a path and worker 2
\* nothing; the pass has completed with the Activate of h2 on worker 2 in
\* Phase 3 and the Deactivate of h1 on worker 1 in Phase 4, and nothing else.
C15_Witness ==
    /\ Completed
    /\ running0 = [wk \in Workers |->
                     IF wk = 1 THEN {ComponentID(PathAX, "h1")} ELSE {}]
    /\ calls = <<Call("Activate", ComponentID(PathAX, "h2"), 2, 3, "h2"),
                 Call("Deactivate", ComponentID(PathAX, "h1"), 1, 4, "ok")>>

\* The pass has left the given phase without an error.
Past(n) == Completed \/ (PastFind /\ pass.pc # "done" /\ PhaseOf(pass.pc) > n)

\* The calls of Phase 2 for the path p.
Phase2Calls(p) == {k \in InPhase(2) : ComponentPath(calls[k].id) = p}

\* C16: every call of Phase 2 is an Activate (never a Deactivate), on a
\* worker of the fleet, for a desired path that no worker runs in any
\* version, with the hash the Version Index holds for the path and HEAD when
\* it holds none; and when Phase 2 is over it has issued exactly one call for
\* each desired path that no worker ran and none for the others.
C16_ActivateMissingOnly ==
    /\ \A k \in InPhase(2) :
          LET p == ComponentPath(calls[k].id)
          IN  /\ calls[k].op = "Activate"
              /\ calls[k].w \in Workers
              /\ p \in Desired(pass.active)
              /\ ~RunsPath(running0, p)
              /\ calls[k].id.Hash =
                    IF p \in DOMAIN snapshot THEN snapshot[p] ELSE headHashSentinel
              /\ Phase2Calls(p) = {k}
    /\ pass.pc = "p2act" => ~RunsPath(running, ComponentPath(pass.compID))
    /\ Past(2) =>
          \A p \in Desired(pass.active) :
              Cardinality(Phase2Calls(p)) = IF RunsPath(running0, p) THEN 0 ELSE 1

\* The fresh deploy: one desired path, an empty index and an idle fleet; the
\* pass has completed with one Activate of HEAD and nothing else, and the
\* index holds the hash it resolved to.
C16_Witness ==
    /\ Completed
    /\ running0 = NoFleet
    /\ snapshot = EmptyMap
    /\ Len(calls) = 1
    /\ calls[1].op = "Activate"
    /\ calls[1].phase = 2
    /\ calls[1].id = ComponentID(PathAX, headHashSentinel)
    /\ pathHashes[PathAX] = calls[1].ret

\* C17: every call of Phase 1 is a Deactivate, on a worker that ran the
\* component when the pass started, of a component whose (user, repo) is not
\* desired, and none is issued twice; when Phase 1 is over it has issued one
\* for every component a worker ran whose (user, repo) is not desired; so it
\* has issued none for a component of a desired path, whatever its hash.
C17_Phase1OnlyNonDesired ==
    /\ \A k \in InPhase(1) :
          /\ calls[k].op = "Deactivate"
          /\ calls[k].id \in running0[calls[k].w]
          /\ ComponentPath(calls[k].id) \notin Desired(pass.active)
          /\ \A j \in InPhase(1) :
                (calls[j].w = calls[k].w /\ calls[j].id = calls[k].id) => j = k
    /\ Past(1) =>
          {<<calls[k].w, calls[k].id>> : k \in InPhase(1)} =
          {<<wk, c>> \in Workers \X RunnableIDs :
              c \in running0[wk] /\ ComponentPath(c) \notin Desired(pass.active)}

\* Phase 1 is over: it has deactivated two non-desired components and has
\* left a component of a desired path running.
C17_Witness ==
    /\ pass.pc = "p2status"
    /\ Cardinality(InPhase(1)) = 2
    /\ \E wk \in Workers : \E c \in running[wk] :
          ComponentPath(c) \in Desired(pass.active)

\* C18: when a pass returns, with an error or without, the reconciler goes
\* back to its receive on the dirty signal and the return raises nothing
\* (hist.lastErr keeps the error it logged); while it waits and the signal
\* is not raised it can take no step; a pass starts only by taking a raised
\* signal; the signal is raised only by the applier, after it has applied an
\* update, or by a call of NotifyComponentStateChanged; and while the
\* reconciler waits the fleet stays as the aborted pass left it.
C18_EventDrivenRetry ==
    /\ [][(pass.pc = "done" /\ pass'.pc # "done") =>
            /\ pass' = Idle
            /\ dirtyStateNotifier' = dirtyStateNotifier
            /\ hist'.lastErr = pass.err]_vars
    /\ []((pass.pc = "wait" /\ dirtyStateNotifier = 0) => ~ENABLED Reconciler)
    /\ [][(pass.pc = "wait" /\ pass'.pc # "wait") =>
            /\ dirtyStateNotifier = 1
            /\ dirtyStateNotifier' = 0
            /\ pass'.pc = "lock"]_vars
    /\ [][dirtyStateNotifier' > dirtyStateNotifier => Raises]_vars
    /\ [][pass.pc = "wait" => running' = running /\ pathHashMux' # "reconciler"]_vars

\* A pass has aborted on a failed Activate and has returned; the reconciler
\* waits, the signal is not raised, the queue is drained, and the desired
\* path runs nowhere.
C18_Witness ==
    /\ pass.pc = "wait"
    /\ hist.lastErr = "activate"
    /\ dirtyStateNotifier = 0
    /\ Drained
    /\ applier.pc = "recv"
    /\ ~RunsPath(running, PathAX)

\* The goroutine `self` is inside HandleDirtyState with the lock taken.
InPassOf(self) == Frame(self).pc \notin {"wait", "lock"}

\* C20: a pass of the reconciler goroutine and a pass started by a direct
\* call of HandleDirtyState never overlap: at most one of the two goroutines
\* is past the Lock of line 94, and it holds the Version Index lock; a
\* goroutine passes the Lock (and so begins Phase 1) only when the other is
\* outside a pass, its earlier pass having returned and unlocked; and every
\* worker call is issued by the goroutine that holds the lock while the other
\* stands still.
C20_MutualExclusion ==
    /\ [](~(InPassOf("reconciler") /\ InPassOf("caller")))
    /\ [](\A self \in Executors : InPassOf(self) => pathHashMux = self)
    /\ [][\A self \in Executors :
            (Frame(self).pc = "lock" /\ Frame(self)'.pc # "lock") =>
                /\ pathHashMux = "free"
                /\ \A other \in Executors \ {self} :
                      Frame(other).pc \in {"wait", "lock"}]_vars
    /\ [][nCalls' > nCalls =>
            \E self \in Executors :
                /\ pathHashMux = self
                /\ InPassOf(self)
                /\ \A other \in Executors \ {self} :
                      /\ Frame(other)' = Frame(other)
                      /\ Frame(other).pc \in {"wait", "lock"}]_vars

\* The reconciler goroutine is in Phase 4 of its pass, after two commands,
\* while the direct caller waits at the Lock.
C20_Witness ==
    /\ pass.pc = "p4deact"
    /\ Len(calls) >= 2
    /\ forced.pc = "lock"
    /\ pathHashMux = "reconciler"

\* A producer that calls UpdateComponentHash now blocks: the channel is full.
ProducerBlocked ==
    hist.nEnq < MaxUpdates /\ Len(pathHashUpdater) = updaterChanSize

\* C19: the applier has released the Version Index lock when it raises the
\* dirty signal, and it goes from the lock to the store and the signal; and
\* under fair scheduling of the two goroutines no task stays blocked for
\* ever: the applier does not wait for the lock for ever, a pass that has
\* begun returns, the lock is released again, a raised signal is received,
\* and a producer blocked on the full update queue is unblocked.
C19_DeadlockFreedom ==
    /\ [](applier.pc = "notify" => pathHashMux # "applier")
    /\ [][(applier.pc = "lock" /\ applier'.pc # "lock") =>
            /\ pathHashMux = "free"
            /\ applier'.pc = "store"]_vars
    /\ [][(applier.pc = "store" /\ applier'.pc # "store") =>
            /\ pathHashMux' = "free"
            /\ applier'.pc = "notify"]_vars
    /\ []<>(applier.pc # "lock")
    /\ []<>(pass.pc = "wait")
    /\ []<>(pathHashMux = "free")
    /\ []<>(dirtyStateNotifier = 0)
    /\ []<>~ProducerBlocked

\* A producer is blocked on the full queue while a pass runs and the applier
\* waits for the lock with the update it has received.
C19_Witness ==
    /\ ProducerBlocked
    /\ InPass
    /\ applier.pc = "lock"
    /\ pathHashMux = "reconciler"

====
